---- MODULE Spec2Model ----
(***************************************************************************)
(* Model of pacman/controller.py: the Controller that routes messages      *)
(* between the game server and the agents.  One request is received,       *)
(* dispatched by kind to its handler, and answered; handlers raise         *)
(* KeyError on a missing dictionary entry, which ends run().               *)
(*                                                                         *)
(* Each handler is cut at its server.send call: the action named after the *)
(* handler runs it up to and including the send (pc = "sent"), and the     *)
(* statements that follow the send run in the step that returns to the     *)
(* loop.                                                                   *)
(***************************************************************************)
EXTENDS Integers, Sequences, FiniteSets, TLC

\* ------------------------------------------------------------------------
\* Bounds of the model
\* ------------------------------------------------------------------------
MaxMessages == 6
MaxGames == 2
MaxCount == 1

AgentIds == {1, 2}
Teams == {"pacman", "ghost"}
Classes == {"C", "D"}
Widths == {10, 20}
Heights == {10}
Positions == {<<1, 1>>, <<2, 1>>}
WallSnapshots == {<<<<0, 0>>>>}
FoodSnapshots == {<<<<3, 3>>>>}
Policies == {"p1", "p2"}
LegalActionSets == {{"North", "Stop"}}

\* ------------------------------------------------------------------------
\* Python dictionaries
\* ------------------------------------------------------------------------
EmptyDict == [x \in {} |-> x]

Put(d, k, v) == [x \in (DOMAIN d) \cup {k} |-> IF x = k THEN v ELSE d[x]]

Del(d, k) == [x \in (DOMAIN d) \ {k} |-> d[x]]

RECURSIVE SortedSeq(_)
SortedSeq(S) ==
    IF S = {} THEN << >>
    ELSE LET m == CHOOSE x \in S : \A y \in S : x <= y
         IN  <<m>> \o SortedSeq(S \ {m})

Range(s) == {s[i] : i \in DOMAIN s}

\* ------------------------------------------------------------------------
\* Messages
\* ------------------------------------------------------------------------
NoMsg == [type |-> "NONE"]

AckMessage == [type |-> "ACK"]

ActionMessage(agent_id, action) ==
    [type |-> "ACTION", agent_id |-> agent_id, action |-> action]

BehaviorCountMessage(count) == [type |-> "BEHAVIOR_COUNT", count |-> count]

PolicyMessage(agent_id, policy) ==
    [type |-> "POLICY", agent_id |-> agent_id, policy |-> policy]

PositionMaps ==
    {[i \in S |-> p] : S \in {{}, AgentIds}, p \in Positions}

FragileMaps ==
    {EmptyDict, [i \in AgentIds |-> TRUE]}

RegisterMsgs ==
    [type : {"REGISTER"}, agent_id : AgentIds, agent_team : Teams,
     agent_class : Classes]

InitMsgs == [type : {"INIT"}, agent_id : AgentIds]

GameStartMsgs ==
    [type : {"GAME_START"}, agent_id : AgentIds, map_width : Widths,
     map_height : Heights]

\* STATE payloads report positions and fragile flags for the same agents
StateMsgs ==
    {m \in [type : {"STATE"}, agent_id : AgentIds,
            wall_positions : WallSnapshots, food_positions : FoodSnapshots,
            agent_positions : PositionMaps, fragile_agents : FragileMaps,
            executed_action : {"Stop"}, reward : {0},
            legal_actions : LegalActionSets, test_mode : {FALSE}] :
        DOMAIN m.fragile_agents = DOMAIN m.agent_positions}

BehaviorCountRequests == [type : {"REQUEST_BEHAVIOR_COUNT"}, agent_id : AgentIds]

PolicyRequests == [type : {"REQUEST_POLICY"}, agent_id : AgentIds]

PolicyMsgs == [type : {"POLICY"}, agent_id : AgentIds, policy : Policies]

UnknownMsgs == [type : {"UNKNOWN"}, agent_id : AgentIds]

Messages ==
    RegisterMsgs \cup InitMsgs \cup GameStartMsgs \cup StateMsgs \cup
    BehaviorCountRequests \cup PolicyRequests \cup PolicyMsgs \cup UnknownMsgs

\* ------------------------------------------------------------------------
\* Collaborators the controller calls: state.GameState and the agent classes
\* ------------------------------------------------------------------------
GameState(width, height, walls, agent_id, ally_ids, enemy_ids, eater, iteration) ==
    [width |-> width, height |-> height, walls |-> walls,
     food_positions |-> << >>, agent_id |-> agent_id, ally_ids |-> ally_ids,
     enemy_ids |-> enemy_ids, eater |-> eater, iteration |-> iteration,
     positions |-> EmptyDict, fragile |-> EmptyDict, predicted |-> EmptyDict]

observe_agent(gs, id, pos) ==
    [gs EXCEPT !.positions = Put(gs.positions, id, pos)]

observe_fragile_agent(gs, id, status) ==
    [gs EXCEPT !.fragile = Put(gs.fragile, id, status)]

predict_agent(gs, id, action) ==
    [gs EXCEPT !.predicted = Put(gs.predicted, id, action)]

set_walls(gs, walls) == [gs EXCEPT !.walls = walls]

set_food_positions(gs, food) == [gs EXCEPT !.food_positions = food]

NoPolicy == "None"

Agent(class, agent_id, ally_ids, enemy_ids) ==
    [class |-> class, agent_id |-> agent_id, ally_ids |-> ally_ids,
     enemy_ids |-> enemy_ids, behavior_count |-> 0, policy |-> NoPolicy]

reset_behavior_count(agent) == [agent EXCEPT !.behavior_count = 0]

get_policy(agent) == agent.policy

set_policy(agent, policy) == [agent EXCEPT !.policy = policy]

\* choose_action returns one of the legal actions and may count a behavior
ChoiceOutcomes(agent, legal_actions) ==
    {[action |-> a, agent |-> [agent EXCEPT !.behavior_count = @ + inc]] :
        a \in legal_actions,
        inc \in {i \in {0, 1} : agent.behavior_count + i <= MaxCount}}

\* ------------------------------------------------------------------------
\* State of the controller
\* ------------------------------------------------------------------------
VARIABLES
    agents,          \* self.agents: agent_id -> agent instance
    agent_classes,   \* self.agent_classes: agent_id -> class
    agent_teams,     \* self.agent_teams: agent_id -> team
    game_states,     \* self.game_states: agent_id -> GameState
    game_number,     \* self.game_number: agent_id -> episode counter
    last_action,     \* self.last_action
    pc,              \* "receive", "sent" or "crashed"
    msg,             \* the message being processed
    reply,           \* the message handed to server.send for this request
    sends,           \* calls of server.send since the last receive
    received,        \* messages received so far
    predict_calls,   \* ids passed to predict_agent for this request
    calls,           \* the calls made for the current STATE request, in order
    total_starts,    \* history: completed GAME_STARTs per agent
    starts,          \* history: completed GAME_STARTs per agent since its INIT
    registered,      \* history: payload of the last REGISTER per agent
    reported,        \* history: count last reported per agent, no STATE since
    policy_set,      \* history: policy last set per agent since its INIT
    before           \* history: the dictionaries as the current request found them

ctl == <<agents, agent_classes, agent_teams, game_states, game_number, last_action>>
hist == <<total_starts, starts, registered, reported, policy_set>>
vars == <<ctl, pc, msg, reply, sends, received, predict_calls, calls, hist,
          before>>

NoSnapshot == [taken |-> FALSE]

Snapshot ==
    [taken |-> TRUE, agents |-> agents, agent_classes |-> agent_classes,
     agent_teams |-> agent_teams, game_states |-> game_states,
     game_number |-> game_number, last_action |-> last_action]

Init ==
    /\ agents = EmptyDict
    /\ agent_classes = EmptyDict
    /\ agent_teams = EmptyDict
    /\ game_states = EmptyDict
    /\ game_number = EmptyDict
    /\ last_action = "Stop"
    /\ pc = "receive"
    /\ msg = NoMsg
    /\ reply = NoMsg
    /\ sends = 0
    /\ received = 0
    /\ predict_calls = {}
    /\ calls = << >>
    /\ total_starts = [a \in AgentIds |-> 0]
    /\ starts = [a \in AgentIds |-> 0]
    /\ registered = EmptyDict
    /\ policy_set = EmptyDict
    /\ reported = EmptyDict
    /\ before = NoSnapshot

\* the message types __process__ has a branch for
\* a dispatch chain whose last branch is missing
RecognizedWithoutPolicy ==
    {"STATE", "INIT", "GAME_START", "REGISTER", "REQUEST_BEHAVIOR_COUNT",
     "REQUEST_POLICY"}

\* the message types that have a branch in __process__
Recognized ==
    {"STATE", "INIT", "GAME_START", "REGISTER", "REQUEST_BEHAVIOR_COUNT",
     "REQUEST_POLICY", "POLICY"}

\* msg = self.server.receive(), and the branch of __process__ that matches it
Receive(m) ==
    /\ pc = "receive"
    /\ received < MaxMessages
    /\ msg' = m
    /\ received' = received + 1
    /\ before' = Snapshot

\* server.send(m): the handler has run up to its send
Send(m) ==
    /\ reply' = m
    /\ sends' = sends + 1
    /\ pc' = "sent"

\* an uncaught KeyError leaves __process__ and run
Raise ==
    /\ pc' = "crashed"
    /\ UNCHANGED <<reply, sends>>

\* back to the top of the while loop
Loop ==
    /\ pc' = "receive"
    /\ msg' = NoMsg
    /\ reply' = NoMsg
    /\ sends' = 0
    /\ predict_calls' = {}
    /\ calls' = << >>
    /\ before' = NoSnapshot
    /\ UNCHANGED received

\* ------------------------------------------------------------------------
\* Controller.__get_allies__ / __get_enemies__
\* ------------------------------------------------------------------------
\* the comprehension reads agent_teams[agent_id] once per registered id
GetTeamRaises(teams, agent_id) ==
    /\ DOMAIN teams # {}
    /\ agent_id \notin DOMAIN teams

\* mutant: the comprehension without id_ != agent_id
GetAlliesWithSelf(teams, agent_id) ==
    SortedSeq({id \in DOMAIN teams : teams[id] = teams[agent_id]})

GetAllies(teams, agent_id) ==
    SortedSeq({id \in DOMAIN teams :
                  teams[id] = teams[agent_id] /\ id # agent_id})

GetEnemies(teams, agent_id) ==
    SortedSeq({id \in DOMAIN teams :
                  teams[id] # teams[agent_id] /\ id # agent_id})

\* ------------------------------------------------------------------------
\* Controller.__register_agent__
\* ------------------------------------------------------------------------
RegisterClass(classes, m) == Put(classes, m.agent_id, m.agent_class)

\* mutant: the team of an agent already registered is kept
RegisterTeamOnce(teams, m) ==
    IF m.agent_id \in DOMAIN teams THEN teams
    ELSE Put(teams, m.agent_id, m.agent_team)

RegisterTeam(teams, m) == Put(teams, m.agent_id, m.agent_team)

\* a registration that also creates the episode counter of the agent
RegisterEffectStartsCounter(s, m) ==
    [s EXCEPT !.agent_classes = RegisterClass(@, m),
              !.agent_teams = RegisterTeam(@, m),
              !.game_number = IF m.agent_id \in DOMAIN @
                              THEN @ ELSE Put(@, m.agent_id, 0)]

\* a registration that also restarts the episode counter of the agent
RegisterEffectResetsCounter(s, m) ==
    [s EXCEPT !.agent_classes = RegisterClass(@, m),
              !.agent_teams = RegisterTeam(@, m),
              !.game_number = IF m.agent_id \in DOMAIN @
                              THEN Put(@, m.agent_id, 0) ELSE @]

\* the two assignments of __register_agent__, on the controller's fields s
RegisterEffect(s, m) ==
    [s EXCEPT !.agent_classes = RegisterClass(@, m),
              !.agent_teams = RegisterTeam(@, m)]

RegisterAgent ==
    /\ pc = "receive"
    /\ \E m \in RegisterMsgs :
        /\ Receive(m)
        /\ LET after == RegisterEffect(Snapshot, m)
           IN  /\ agent_classes' = after.agent_classes
               /\ agent_teams' = after.agent_teams
               /\ agents' = after.agents
               /\ game_states' = after.game_states
               /\ game_number' = after.game_number
               /\ last_action' = after.last_action
        /\ registered' = Put(registered, m.agent_id,
                             [team |-> m.agent_team, class |-> m.agent_class])
        /\ Send(AckMessage)
        /\ UNCHANGED <<predict_calls, calls, total_starts, starts, reported,
                       policy_set>>

\* ------------------------------------------------------------------------
\* Controller.__initialize_agent__
\* ------------------------------------------------------------------------
DiscardAgent(ags, agent_id) ==
    IF agent_id \in DOMAIN ags THEN Del(ags, agent_id) ELSE ags

\* mutant: the counter is set to 0 only when the agent has none yet
InitGameNumberOnce(gn, agent_id) ==
    IF agent_id \in DOMAIN gn THEN gn ELSE Put(gn, agent_id, 0)

InitGameNumber(gn, agent_id) == Put(gn, agent_id, 0)

\* the new instance becomes the only entry of the dictionary
InstallAgentAlone(ags, classes, agent_id, ally_ids, enemy_ids) ==
    Put(EmptyDict, agent_id,
        Agent(classes[agent_id], agent_id, ally_ids, enemy_ids))

\* self.agents[agent_id] = self.agent_classes[agent_id](agent_id, ...)
InstallAgent(ags, classes, agent_id, ally_ids, enemy_ids) ==
    Put(ags, agent_id, Agent(classes[agent_id], agent_id, ally_ids, enemy_ids))

\* mutant: an agent that has an instance keeps it
ReplaceAgentKeep(ags, classes, agent_id, ally_ids, enemy_ids) ==
    IF agent_id \in DOMAIN ags THEN ags
    ELSE InstallAgent(ags, classes, agent_id, ally_ids, enemy_ids)

\* del self.agents[agent_id] if present, then the new instance is stored
ReplaceAgent(ags, classes, agent_id, ally_ids, enemy_ids) ==
    InstallAgent(DiscardAgent(ags, agent_id), classes, agent_id, ally_ids,
                 enemy_ids)

InitializeAgent ==
    /\ pc = "receive"
    /\ \E m \in InitMsgs :
        /\ Receive(m)
        /\ LET agent_id == m.agent_id IN
           IF GetTeamRaises(agent_teams, agent_id)
           THEN /\ Raise
                /\ UNCHANGED <<ctl, predict_calls, calls, hist>>
           ELSE LET ally_ids == GetAllies(agent_teams, agent_id)
                    enemy_ids == GetEnemies(agent_teams, agent_id)
                IN  /\ game_number' = InitGameNumber(game_number, agent_id)
                    /\ starts' = [starts EXCEPT ![agent_id] = 0]
                    /\ policy_set' = Del(policy_set, agent_id)
                    /\ IF agent_id \notin DOMAIN agent_classes
                       THEN /\ Raise
                            /\ agents' = DiscardAgent(agents, agent_id)
                       ELSE /\ agents' = ReplaceAgent(agents, agent_classes,
                                                      agent_id, ally_ids,
                                                      enemy_ids)
                            /\ Send(AckMessage)
                    /\ UNCHANGED <<agent_classes, agent_teams, game_states,
                                   last_action, predict_calls, calls, total_starts,
                                   registered, reported>>

\* ------------------------------------------------------------------------
\* Controller.__start_game_for_agent__ and the increment in __process__
\* ------------------------------------------------------------------------
\* mutant: the team is compared with a differently spelled name
EaterCapitalized(teams, agent_id) == teams[agent_id] = "Pacman"

Eater(teams, agent_id) == teams[agent_id] = "pacman"

DiscardGameState(gstates, agent_id) ==
    IF agent_id \in DOMAIN gstates THEN Del(gstates, agent_id) ELSE gstates

NewGameState(m, teams, gn) ==
    GameState(m.map_width, m.map_height, << >>, m.agent_id,
              GetAllies(teams, m.agent_id), GetEnemies(teams, m.agent_id),
              Eater(teams, m.agent_id), gn[m.agent_id])

\* mutant: a GameState that exists is kept and only given the new iteration
ReplaceGameStateKeep(gstates, m, teams, gn) ==
    IF m.agent_id \in DOMAIN gstates
    THEN [gstates EXCEPT ![m.agent_id].iteration = gn[m.agent_id]]
    ELSE Put(gstates, m.agent_id, NewGameState(m, teams, gn))

\* del self.game_states[agent_id] if present, then the new GameState is stored
ReplaceGameState(gstates, m, teams, gn) ==
    Put(DiscardGameState(gstates, m.agent_id), m.agent_id,
        NewGameState(m, teams, gn))

StartGameForAgent ==
    /\ pc = "receive"
    /\ \E m \in GameStartMsgs :
        /\ total_starts[m.agent_id] < MaxGames
        /\ Receive(m)
        /\ LET agent_id == m.agent_id IN
           IF GetTeamRaises(agent_teams, agent_id)
              \/ agent_id \notin DOMAIN agent_teams
           THEN /\ Raise
                /\ UNCHANGED <<ctl, predict_calls, calls, hist>>
           ELSE /\ IF agent_id \notin DOMAIN game_number
                   THEN /\ Raise
                        /\ game_states' = DiscardGameState(game_states, agent_id)
                   ELSE /\ game_states' =
                              ReplaceGameState(game_states, m, agent_teams,
                                               game_number)
                        /\ Send(AckMessage)
                /\ UNCHANGED <<agents, agent_classes, agent_teams, game_number,
                               last_action, predict_calls, calls, hist>>

\* an increment that is lost
NextGameNumberStuck(gn, agent_id) == gn

\* an increment by two
NextGameNumberTwice(gn, agent_id) == [gn EXCEPT ![agent_id] = @ + 2]

\* self.game_number[msg.agent_id] += 1
NextGameNumber(gn, agent_id) == [gn EXCEPT ![agent_id] = @ + 1]

IncrementGameNumber ==
    /\ pc = "sent"
    /\ msg.type = "GAME_START"
    /\ game_number' = NextGameNumber(game_number, msg.agent_id)
    /\ total_starts' = [total_starts EXCEPT ![msg.agent_id] = @ + 1]
    /\ starts' = [starts EXCEPT ![msg.agent_id] = @ + 1]
    /\ Loop
    /\ UNCHANGED <<agents, agent_classes, agent_teams, game_states,
                   last_action, registered, reported, policy_set>>

\* ------------------------------------------------------------------------
\* Controller.__send_agent_action__ and __choose_action__
\* ------------------------------------------------------------------------
SetSnapshot(gs, m) ==
    set_food_positions(set_walls(gs, m.wall_positions), m.food_positions)

RECURSIVE ObserveAgents(_, _)
ObserveAgents(gs, positions) ==
    IF DOMAIN positions = {} THEN gs
    ELSE LET id == CHOOSE x \in DOMAIN positions : TRUE
         IN  ObserveAgents(observe_agent(gs, id, positions[id]),
                           Del(positions, id))

RECURSIVE ObserveFragileAgents(_, _)
ObserveFragileAgents(gs, fragile) ==
    IF DOMAIN fragile = {} THEN gs
    ELSE LET id == CHOOSE x \in DOMAIN fragile : TRUE
         IN  ObserveFragileAgents(observe_fragile_agent(gs, id, fragile[id]),
                                  Del(fragile, id))

\* for id_ in self.game_states
PredictIds(gstates) == DOMAIN gstates

RECURSIVE PredictAgents(_, _, _)
PredictAgents(gs, ids, action) ==
    IF ids = {} THEN gs
    ELSE LET id == CHOOSE x \in ids : TRUE
         IN  PredictAgents(predict_agent(gs, id, action), ids \ {id}, action)

\* game_state = self.game_states[msg.agent_id], on a dictionary that creates
\* a missing entry instead of raising
LookupGameStateOrNew(gstates, agent_id) ==
    IF agent_id \in DOMAIN gstates THEN <<gstates[agent_id]>>
    ELSE <<GameState(10, 10, << >>, agent_id, << >>, << >>, FALSE, 0)>>

\* game_state = self.game_states[msg.agent_id]: the entry, or none (KeyError)
LookupGameState(gstates, agent_id) ==
    IF agent_id \in DOMAIN gstates THEN <<gstates[agent_id]>> ELSE << >>

Call(op, id, arg) == [op |-> op, id |-> id, arg |-> arg]

\* game_state.set_walls(...); game_state.set_food_positions(...)
SnapshotCalls(m) ==
    <<Call("set_walls", m.agent_id, m.wall_positions),
      Call("set_food_positions", m.agent_id, m.food_positions)>>

\* the two observe loops of __choose_action__
ObserveCalls(m) ==
    LET ids == SortedSeq(DOMAIN m.agent_positions)
        fids == SortedSeq(DOMAIN m.fragile_agents)
    IN  [i \in 1..Len(ids) |->
            Call("observe_agent", ids[i], m.agent_positions[ids[i]])]
        \o [i \in 1..Len(fids) |->
            Call("observe_fragile_agent", fids[i], m.fragile_agents[fids[i]])]

\* choose_action(agent_state, executed_action, reward, legal_actions, test_mode)
ChooseCall(m, agent_state) ==
    <<Call("choose_action", m.agent_id,
           [state |-> agent_state, executed_action |-> m.executed_action,
            reward |-> m.reward, legal_actions |-> m.legal_actions,
            test_mode |-> m.test_mode])>>

\* for id_ in self.game_states: agent_state.predict_agent(id_, agent_action)
PredictCalls(ids, action) ==
    LET pids == SortedSeq(ids)
    IN  [i \in 1..Len(pids) |-> Call("predict_agent", pids[i], action)]

SendCall(m, action) ==
    <<Call("send", m.agent_id, ActionMessage(m.agent_id, action))>>

\* a handler that predicts before it has chosen
StateCallsPredictFirst(m, agent_state, ids, action) ==
    SnapshotCalls(m) \o PredictCalls(ids, action) \o ObserveCalls(m)
        \o ChooseCall(m, agent_state) \o SendCall(m, action)

\* the calls of __send_agent_action__ and __choose_action__, in source order
StateCalls(m, agent_state, ids, action) ==
    SnapshotCalls(m) \o ObserveCalls(m) \o ChooseCall(m, agent_state)
        \o PredictCalls(ids, action) \o SendCall(m, action)

SendAgentAction ==
    /\ pc = "receive"
    /\ \E m \in StateMsgs :
        /\ Receive(m)
        /\ LET agent_id == m.agent_id
               found == LookupGameState(game_states, agent_id)
           IN
           IF found = << >>
           THEN /\ Raise
                /\ UNCHANGED <<ctl, predict_calls, calls, hist>>
           ELSE LET observed ==
                        ObserveFragileAgents(
                            ObserveAgents(SetSnapshot(found[1], m),
                                          m.agent_positions),
                            m.fragile_agents)
                IN  IF agent_id \notin DOMAIN agents
                    THEN /\ Raise
                         /\ game_states' = Put(game_states, agent_id, observed)
                         /\ calls' = SnapshotCalls(m) \o ObserveCalls(m)
                         /\ UNCHANGED <<agents, agent_classes, agent_teams,
                                        game_number, last_action,
                                        predict_calls, hist>>
                    ELSE \E out \in ChoiceOutcomes(agents[agent_id],
                                                   m.legal_actions) :
                            /\ agents' = Put(agents, agent_id, out.agent)
                            /\ predict_calls' = PredictIds(game_states)
                            /\ calls' = StateCalls(m, observed,
                                                   PredictIds(game_states),
                                                   out.action)
                            /\ game_states' =
                                  Put(game_states, agent_id,
                                      PredictAgents(observed,
                                                    PredictIds(game_states),
                                                    out.action))
                            /\ reported' = Del(reported, agent_id)
                            /\ Send(ActionMessage(agent_id, out.action))
                            /\ UNCHANGED <<agent_classes, agent_teams,
                                           game_number, last_action,
                                           total_starts, starts, registered,
                                           policy_set>>

\* self.last_action = self.__send_agent_action__(msg)
StoreLastAction ==
    /\ pc = "sent"
    /\ msg.type = "STATE"
    /\ last_action' = reply.action
    /\ Loop
    /\ UNCHANGED <<agents, agent_classes, agent_teams, game_states,
                   game_number, hist>>

\* ------------------------------------------------------------------------
\* Controller.__request_behavior_count__
\* ------------------------------------------------------------------------
\* mutant: the request is answered with a plain acknowledgment
CountReplyAck(ags, agent_id) == AckMessage

CountReply(ags, agent_id) == BehaviorCountMessage(ags[agent_id].behavior_count)

RequestBehaviorCount ==
    /\ pc = "receive"
    /\ \E m \in BehaviorCountRequests :
        /\ Receive(m)
        /\ IF m.agent_id \notin DOMAIN agents
           THEN Raise
           ELSE Send(CountReply(agents, m.agent_id))
        /\ UNCHANGED <<ctl, predict_calls, calls, hist>>

\* mutant: the reset also drops the policy of the instance
ResetCountAndPolicy(ags, agent_id) ==
    Put(ags, agent_id,
        [ags[agent_id] EXCEPT !.behavior_count = 0, !.policy = NoPolicy])

\* mutant: the counter is read and never reset
ResetCountNever(ags, agent_id) == ags

ResetCount(ags, agent_id) ==
    Put(ags, agent_id, reset_behavior_count(ags[agent_id]))

ResetBehaviorCount ==
    /\ pc = "sent"
    /\ msg.type = "REQUEST_BEHAVIOR_COUNT"
    /\ agents' = ResetCount(agents, msg.agent_id)
    /\ reported' = Put(reported, msg.agent_id, reply.count)
    /\ Loop
    /\ UNCHANGED <<agent_classes, agent_teams, game_states, game_number,
                   last_action, total_starts, starts, registered,
                   policy_set>>

\* ------------------------------------------------------------------------
\* Controller.__send_policy_request__ and __set_agent_policy__
\* ------------------------------------------------------------------------
\* a reply that carries no policy
PolicyReplyNone(ags, agent_id) == PolicyMessage(agent_id, NoPolicy)

\* comm.PolicyMessage(agent_id=msg.agent_id, policy=policy)
PolicyReply(ags, agent_id) == PolicyMessage(agent_id, get_policy(ags[agent_id]))

SendPolicyRequest ==
    /\ pc = "receive"
    /\ \E m \in PolicyRequests :
        /\ Receive(m)
        /\ IF m.agent_id \notin DOMAIN agents
           THEN Raise
           ELSE Send(PolicyReply(agents, m.agent_id))
        /\ UNCHANGED <<ctl, predict_calls, calls, hist>>

StorePolicy(ags, m) == Put(ags, m.agent_id, set_policy(ags[m.agent_id], m.policy))

SetAgentPolicy ==
    /\ pc = "receive"
    /\ \E m \in PolicyMsgs :
        /\ Receive(m)
        /\ IF m.agent_id \notin DOMAIN agents
           THEN /\ Raise
                /\ UNCHANGED <<agents, policy_set>>
           ELSE /\ agents' = StorePolicy(agents, m)
                /\ policy_set' = Put(policy_set, m.agent_id, m.policy)
                /\ Send(AckMessage)
        /\ UNCHANGED <<agent_classes, agent_teams, game_states, game_number,
                       last_action, predict_calls, calls, total_starts, starts,
                       registered, reported>>

\* ------------------------------------------------------------------------
\* Controller.__process__: the handlers that end with their send, and a
\* message type no branch matches
\* ------------------------------------------------------------------------
Return ==
    /\ pc = "sent"
    /\ msg.type \in {"INIT", "REGISTER", "REQUEST_POLICY", "POLICY"}
    /\ Loop
    /\ UNCHANGED <<ctl, hist>>

\* no branch matches: __process__ returns and run receives again
Unrecognized ==
    /\ pc = "receive"
    /\ \E m \in Messages :
        /\ m.type \notin Recognized
        /\ Receive(m)
        /\ UNCHANGED <<pc, reply, sends, predict_calls, calls, ctl, hist>>

Next ==
    \/ RegisterAgent
    \/ InitializeAgent
    \/ StartGameForAgent
    \/ IncrementGameNumber
    \/ SendAgentAction
    \/ StoreLastAction
    \/ RequestBehaviorCount
    \/ ResetBehaviorCount
    \/ SendPolicyRequest
    \/ SetAgentPolicy
    \/ Return
    \/ Unrecognized

Spec == Init /\ [][Next]_vars

TypeOK ==
    /\ pc \in {"receive", "sent", "crashed"}
    /\ sends \in 0..1
    /\ DOMAIN agents \subseteq AgentIds
    /\ DOMAIN game_states \subseteq AgentIds

\* ------------------------------------------------------------------------
\* Properties
\* ------------------------------------------------------------------------
\* the reply of the dispatch table for a request m
ExpectedReply(m, r) ==
    CASE m.type \in {"REGISTER", "INIT", "GAME_START", "POLICY"} ->
            r = AckMessage
      [] m.type = "STATE" ->
            /\ r.type = "ACTION"
            /\ DOMAIN r = {"type", "agent_id", "action"}
            /\ r.agent_id = m.agent_id
      [] m.type = "REQUEST_BEHAVIOR_COUNT" ->
            /\ r.type = "BEHAVIOR_COUNT"
            /\ DOMAIN r = {"type", "count"}
      [] m.type = "REQUEST_POLICY" ->
            /\ r.type = "POLICY"
            /\ DOMAIN r = {"type", "agent_id", "policy"}
            /\ r.agent_id = m.agent_id
      [] OTHER -> FALSE

\* the precondition of a request m on the dictionaries b it finds
Precondition(m, b) ==
    CASE m.type = "REGISTER" -> TRUE
      [] m.type = "INIT" -> m.agent_id \in DOMAIN b.agent_teams
      [] m.type = "STATE" ->
            /\ m.agent_id \in DOMAIN b.game_states
            /\ m.agent_id \in DOMAIN b.agents
      [] OTHER -> m.agent_id \in DOMAIN b.agents

Handled(type, a) == pc = "sent" /\ msg.type = type /\ msg.agent_id = a

\* C1: a recognized request whose precondition holds gets exactly one reply,
\* of the kind of the dispatch table, before the loop receives again; no
\* request gets a second reply and none is pending when the loop receives.
C1_OneReplyPerRequest ==
    /\ sends <= 1
    /\ pc = "receive" => sends = 0 /\ reply = NoMsg
    /\ pc = "crashed" => sends = 0 /\ ~Precondition(msg, before)
    /\ pc = "sent" =>
          /\ sends = 1
          /\ msg.type \in Recognized
          /\ ExpectedReply(msg, reply)

C1_Witness ==
    /\ pc = "sent"
    /\ msg.type = "STATE"
    /\ reply.type = "ACTION"
    /\ Precondition(msg, before)

\* C2 as claimed: the episode counter of an agent never decreases, and the
\* n-th successful GAME_START of an agent creates its GameState with
\* iteration n-1, whatever INITs came between.
C2_CounterIgnoresInit ==
    [][\A a \in AgentIds :
          /\ a \in DOMAIN game_number =>
                /\ a \in DOMAIN game_number'
                /\ game_number'[a] >= game_number[a]
          /\ Handled("GAME_START", a)' =>
                game_states'[a].iteration = total_starts'[a]]_vars

\* C2 amended: every INIT handled for an agent sets its episode counter to 0,
\* no other step decreases it, and the n-th successful GAME_START since the
\* agent's latest INIT creates its GameState with iteration n-1.
C2_CounterRestartsAtInit ==
    [][\A a \in AgentIds :
          /\ Handled("GAME_START", a)' =>
                game_states'[a].iteration = starts'[a]
          /\ (pc = "receive" /\ Handled("INIT", a)') => game_number'[a] = 0
          /\ (a \in DOMAIN game_number
              /\ ~(pc = "receive" /\ msg'.type = "INIT" /\ msg'.agent_id = a)) =>
                /\ a \in DOMAIN game_number'
                /\ game_number'[a] >= game_number[a]]_vars

C2_Witness ==
    \E a \in AgentIds :
        /\ Handled("GAME_START", a)
        /\ total_starts[a] = 1
        /\ starts[a] = 0
        /\ game_states[a].iteration = 0

\* the agent ids a GameState knows: its own and those it has observed
KnownIds(gs) == {gs.agent_id} \cup DOMAIN gs.positions

\* C3: when the Action reply of a STATE request is sent, predict_agent has
\* been called exactly for the ids known to the acting agent's GameState.
C3_PredictEveryKnownAgent ==
    (pc = "sent" /\ msg.type = "STATE") =>
        predict_calls = KnownIds(game_states[msg.agent_id])

\* C4 as claimed: the reply is sent after every state change of the handler,
\* the increment of GAME_START being the only change that follows a send; the
\* counter is already reset when BehaviorCount is sent, the new instance is
\* installed when the Ack of INIT is sent, and every predict_agent call is
\* done when Action is sent.
C4_ReplyAfterAllChanges ==
    /\ [](pc = "sent" =>
            /\ msg.type = "REQUEST_BEHAVIOR_COUNT" =>
                  agents[msg.agent_id].behavior_count = 0
            /\ msg.type = "INIT" =>
                  /\ msg.agent_id \in DOMAIN agents
                  /\ agents[msg.agent_id].behavior_count = 0
            /\ msg.type = "STATE" =>
                  /\ predict_calls = DOMAIN game_states
                  /\ \A id \in predict_calls :
                        /\ id \in DOMAIN game_states[msg.agent_id].predicted
                        /\ game_states[msg.agent_id].predicted[id] = reply.action)
    /\ [][(pc = "sent" /\ msg.type # "GAME_START") => UNCHANGED ctl]_vars

\* C4 amended: three updates follow the send of their handler: the increment
\* of GAME_START, the counter reset of REQUEST_BEHAVIOR_COUNT (the reply
\* carries the count the instance still holds) and the store of last_action
\* of STATE; every other change precedes the send, so the new instance is
\* installed when the Ack of INIT is sent and every predict_agent call is
\* done when Action is sent.
C4_OnlyTrailingUpdatesFollowSend ==
    /\ [](pc = "sent" =>
            /\ msg.type = "REQUEST_BEHAVIOR_COUNT" =>
                  agents[msg.agent_id].behavior_count = reply.count
            /\ msg.type = "INIT" =>
                  /\ msg.agent_id \in DOMAIN agents
                  /\ agents[msg.agent_id].behavior_count = 0
            /\ msg.type = "STATE" =>
                  /\ predict_calls = DOMAIN game_states
                  /\ \A id \in predict_calls :
                        /\ id \in DOMAIN game_states[msg.agent_id].predicted
                        /\ game_states[msg.agent_id].predicted[id] = reply.action)
    /\ [][pc = "sent" =>
            CASE msg.type = "GAME_START" ->
                    /\ game_number' =
                          [game_number EXCEPT ![msg.agent_id] = @ + 1]
                    /\ UNCHANGED <<agents, agent_classes, agent_teams,
                                   game_states, last_action>>
              [] msg.type = "REQUEST_BEHAVIOR_COUNT" ->
                    /\ agents' =
                          [agents EXCEPT ![msg.agent_id].behavior_count = 0]
                    /\ UNCHANGED <<agent_classes, agent_teams, game_states,
                                   game_number, last_action>>
              [] msg.type = "STATE" ->
                    /\ last_action' = reply.action
                    /\ UNCHANGED <<agents, agent_classes, agent_teams,
                                   game_states, game_number>>
              [] OTHER -> UNCHANGED ctl]_vars

C4_Witness ==
    /\ pc = "sent"
    /\ msg.type = "REQUEST_BEHAVIOR_COUNT"
    /\ reply.count > 0
    /\ agents[msg.agent_id].behavior_count = reply.count

\* C5: the BehaviorCount reply carries the count the instance held when the
\* request arrived, the counter is 0 once the request is done and stays 0
\* until a STATE of the agent is handled, so a second request with no STATE
\* in between is answered with 0.
C5_CountReportedThenZero ==
    \A a \in AgentIds :
        /\ Handled("REQUEST_BEHAVIOR_COUNT", a) =>
              /\ reply.count = before.agents[a].behavior_count
              /\ a \in DOMAIN reported => reply.count = 0
        /\ (pc # "sent" /\ a \in DOMAIN reported /\ a \in DOMAIN agents) =>
              agents[a].behavior_count = 0

C5_Witness ==
    \E a \in AgentIds :
        /\ Handled("REQUEST_BEHAVIOR_COUNT", a)
        /\ a \in DOMAIN reported
        /\ reported[a] > 0
        /\ reply.count = 0

\* C6: when the Ack of INIT is sent the agent has one instance, freshly built
\* from its registered class: counter 0 and no policy, whatever the instance
\* it replaces held; the instances of the other agents are as they were.
C6_InitReplacesInstance ==
    \A a \in AgentIds :
        Handled("INIT", a) =>
            /\ DOMAIN agents = DOMAIN before.agents \cup {a}
            /\ agents[a].agent_id = a
            /\ agents[a].class = agent_classes[a]
            /\ agents[a].behavior_count = 0
            /\ agents[a].policy = NoPolicy
            /\ \A b \in DOMAIN before.agents \ {a} : agents[b] = before.agents[b]

C6_Witness ==
    \E a \in AgentIds :
        /\ Handled("INIT", a)
        /\ a \in DOMAIN before.agents
        /\ before.agents[a].behavior_count > 0
        /\ before.agents[a].policy # NoPolicy

\* C7: an agent has at most one GameState, and the one that exists when the
\* Ack of GAME_START is sent holds no position, fragility flag, wall, food or
\* prediction of the GameState it replaces.
C7_GameStartDiscardsGameState ==
    /\ \A a \in DOMAIN game_states : game_states[a].agent_id = a
    /\ \A a \in AgentIds :
          Handled("GAME_START", a) =>
              /\ DOMAIN game_states = DOMAIN before.game_states \cup {a}
              /\ game_states[a].positions = EmptyDict
              /\ game_states[a].fragile = EmptyDict
              /\ game_states[a].predicted = EmptyDict
              /\ game_states[a].walls = << >>
              /\ game_states[a].food_positions = << >>

C7_Witness ==
    \E a \in AgentIds :
        /\ Handled("GAME_START", a)
        /\ a \in DOMAIN before.game_states
        /\ before.game_states[a].positions # EmptyDict
        /\ before.game_states[a].fragile # EmptyDict
        /\ before.game_states[a].walls # << >>
        /\ before.game_states[a].food_positions # << >>

AlliesOf(teams, a) == {b \in DOMAIN teams : teams[b] = teams[a] /\ b # a}

EnemiesOf(teams, a) == {b \in DOMAIN teams : teams[b] # teams[a]}

RegisteredTeams == [id \in DOMAIN registered |-> registered[id].team]

\* C8: the registry holds for each agent exactly the team and the class of
\* its latest REGISTER, a REGISTER leaves the records of the other agents
\* alone, INIT builds the instance from that class and computes allies and
\* enemies from those teams, and GAME_START computes the eater flag and the
\* allies and enemies from those teams.
C8_RegisterOverwritesRecord ==
    /\ DOMAIN agent_teams = DOMAIN registered
    /\ DOMAIN agent_classes = DOMAIN registered
    /\ \A id \in DOMAIN registered :
          /\ agent_teams[id] = registered[id].team
          /\ agent_classes[id] = registered[id].class
    /\ \A a \in AgentIds :
          /\ Handled("REGISTER", a) =>
                /\ registered[a] = [team |-> msg.agent_team,
                                    class |-> msg.agent_class]
                /\ \A b \in AgentIds \ {a} :
                      /\ b \in DOMAIN registered <=> b \in DOMAIN before.agent_teams
                      /\ b \in DOMAIN registered =>
                            /\ agent_teams[b] = before.agent_teams[b]
                            /\ agent_classes[b] = before.agent_classes[b]
          /\ Handled("INIT", a) =>
                /\ agents[a].class = registered[a].class
                /\ Range(agents[a].ally_ids) = AlliesOf(RegisteredTeams, a)
                /\ Range(agents[a].enemy_ids) = EnemiesOf(RegisteredTeams, a)
          /\ Handled("GAME_START", a) =>
                /\ game_states[a].eater = (registered[a].team = "pacman")
                /\ Range(game_states[a].ally_ids) = AlliesOf(RegisteredTeams, a)
                /\ Range(game_states[a].enemy_ids) = EnemiesOf(RegisteredTeams, a)

C8_Witness ==
    \E a \in AgentIds :
        /\ Handled("INIT", a)
        /\ a \in DOMAIN before.agents
        /\ before.agents[a].class # agents[a].class
        /\ a \in DOMAIN game_states
        /\ game_states[a].eater # (agent_teams[a] = "pacman")

NoDuplicates(s) == Cardinality(Range(s)) = Len(s)

Partition(allies, enemies, a, teams) ==
    /\ NoDuplicates(allies)
    /\ NoDuplicates(enemies)
    /\ Range(allies) = AlliesOf(teams, a)
    /\ Range(enemies) = EnemiesOf(teams, a)
    /\ Range(allies) \cap Range(enemies) = {}
    /\ a \notin Range(allies) \cup Range(enemies)
    /\ Range(allies) \cup Range(enemies) \cup {a} = DOMAIN teams

\* C9: the ally and enemy lists handed to the instance at INIT and to the
\* GameState at GAME_START are the agents of the same team other than the
\* agent and the agents of another team, over the registry as it stands when
\* the request is handled: disjoint from each other and from the agent, and
\* with the agent the whole registry.
C9_AlliesAndEnemiesFromRegistry ==
    \A a \in AgentIds :
        /\ Handled("INIT", a) =>
              Partition(agents[a].ally_ids, agents[a].enemy_ids, a, agent_teams)
        /\ Handled("GAME_START", a) =>
              Partition(game_states[a].ally_ids, game_states[a].enemy_ids, a,
                        agent_teams)

C9_Witness ==
    \E a \in AgentIds :
        /\ Handled("GAME_START", a)
        /\ game_states[a].ally_ids # << >>
        /\ agents[a].ally_ids = << >>
        /\ agents[a].enemy_ids = << >>

ScenarioTeams == (1 :> "pacman") @@ (2 :> "ghost")

\* C10: the GameState that exists when the Ack of GAME_START(a, w, h) is sent
\* has width w, height h, agent_id a, eater = (team of a is "pacman") and as
\* iteration the episode counter the request found, which is the number of
\* GAME_STARTs completed for a since its INIT; with agent 1 registered as
\* "pacman" and agent 2 as "ghost", agent 1 gets no ally, enemy 2 and eater.
C10_GameStateOfGameStart ==
    \A a \in AgentIds :
        Handled("GAME_START", a) =>
            /\ game_states[a].width = msg.map_width
            /\ game_states[a].height = msg.map_height
            /\ game_states[a].agent_id = a
            /\ game_states[a].eater = (agent_teams[a] = "pacman")
            /\ game_states[a].iteration = before.game_number[a]
            /\ game_states[a].iteration = starts[a]
            /\ game_number[a] = before.game_number[a]
            /\ (agent_teams = ScenarioTeams /\ a = 1) =>
                  /\ game_states[a].ally_ids = << >>
                  /\ game_states[a].enemy_ids = <<2>>
                  /\ game_states[a].eater

C10_Witness ==
    /\ Handled("GAME_START", 1)
    /\ agent_teams = ScenarioTeams
    /\ DOMAIN agents = {1, 2}
    /\ msg.map_width = 10
    /\ msg.map_height = 10
    /\ game_states[1].iteration = 1

\* the seven kinds of the dispatch table
DispatchTable ==
    {"STATE", "INIT", "GAME_START", "REGISTER", "REQUEST_BEHAVIOR_COUNT",
     "REQUEST_POLICY", "POLICY"}

\* C11: a message whose kind is not in the dispatch table invokes no handler,
\* sends no reply and leaves the registry, the agents, the game states, the
\* episode counters and last_action as they were, and the loop is back at
\* receive; only such a message is passed over: every message received is
\* either of a recognized kind and answered by exactly one send, or of a
\* recognized kind and ended by a KeyError with no send, or unrecognized with
\* no send, so replies and recognized messages handled to their end stay
\* equal in number.
C11_UnrecognizedIsPassedOver ==
    /\ [](/\ (pc = "receive" /\ msg # NoMsg) =>
              /\ msg.type \notin DispatchTable
              /\ sends = 0
              /\ reply = NoMsg
              /\ calls = << >>
              /\ predict_calls = {}
              /\ Snapshot = before
          /\ msg.type \notin DispatchTable \cup {"NONE"} => pc = "receive")
    /\ [][/\ received' = received + 1 =>
              /\ pc = "receive"
              /\ \/ /\ msg'.type \in DispatchTable
                    /\ pc' = "sent"
                    /\ sends' = 1
                    /\ reply' # NoMsg
                 \/ /\ msg'.type \in DispatchTable
                    /\ pc' = "crashed"
                    /\ sends' = 0
                    /\ reply' = NoMsg
                 \/ /\ msg'.type \notin DispatchTable
                    /\ pc' = "receive"
                    /\ sends' = 0
                    /\ reply' = NoMsg
                    /\ ctl' = ctl
          /\ received' = received =>
              /\ sends' = 0
              /\ reply' = NoMsg
              /\ pc = "sent"
              /\ pc' = "receive"]_vars

C11_Witness ==
    /\ pc = "receive"
    /\ msg.type = "UNKNOWN"
    /\ DOMAIN game_states # {}
    /\ game_number[msg.agent_id] = 1
    /\ received = 4

\* the entries of agent b in the five dictionaries of a snapshot s
EntryOf(s, b) ==
    [team |-> IF b \in DOMAIN s.agent_teams THEN <<s.agent_teams[b]>> ELSE << >>,
     class |-> IF b \in DOMAIN s.agent_classes THEN <<s.agent_classes[b]>> ELSE << >>,
     agent |-> IF b \in DOMAIN s.agents THEN <<s.agents[b]>> ELSE << >>,
     game_state |-> IF b \in DOMAIN s.game_states THEN <<s.game_states[b]>> ELSE << >>,
     game_number |-> IF b \in DOMAIN s.game_number THEN <<s.game_number[b]>> ELSE << >>]

CallOps == {calls[i].op : i \in 1..Len(calls)}

\* C12: a STATE message for an agent_id without a game state ends in a
\* KeyError: nothing is sent, choose_action is not called (no call at all is
\* made), and the registration, agent, game state and episode counter of
\* every agent are as the message found them; an Action reply to STATE is
\* sent only for an agent_id that had a game state.
C12_StateWithoutGameStateRaises ==
    (pc # "receive" /\ msg.type = "STATE") =>
        /\ msg.agent_id \notin DOMAIN before.game_states =>
              /\ pc = "crashed"
              /\ sends = 0
              /\ reply = NoMsg
              /\ calls = << >>
              /\ predict_calls = {}
              /\ \A b \in AgentIds : EntryOf(Snapshot, b) = EntryOf(before, b)
              /\ Snapshot = before
        /\ pc = "sent" =>
              /\ msg.agent_id \in DOMAIN before.game_states
              /\ "choose_action" \in CallOps

C12_Witness ==
    /\ pc = "crashed"
    /\ msg.type = "STATE"
    /\ msg.agent_id = 1
    /\ 1 \in DOMAIN agents
    /\ 1 \notin DOMAIN game_states
    /\ 2 \in DOMAIN game_states
    /\ game_number[2] = 1

\* C13: when the Ack of REGISTER(a, team, class) is sent, and after the
\* handler has returned, only the team and class stored for a differ from
\* what the message found: every episode counter (that of a included), every
\* agent instance with the ally and enemy lists it was built with, every
\* game state and last_action are unchanged, and so are the team and class
\* of every other agent.
C13_RegisterChangesOnlyTheRecord ==
    /\ [](\A a \in AgentIds :
            Handled("REGISTER", a) =>
                /\ game_number = before.game_number
                /\ agents = before.agents
                /\ game_states = before.game_states
                /\ last_action = before.last_action
                /\ \A b \in DOMAIN agents :
                      /\ agents[b].ally_ids = before.agents[b].ally_ids
                      /\ agents[b].enemy_ids = before.agents[b].enemy_ids
                /\ \A b \in AgentIds \ {a} :
                      EntryOf(Snapshot, b) = EntryOf(before, b)
                /\ agent_teams[a] = msg.agent_team
                /\ agent_classes[a] = msg.agent_class)
    /\ [][(pc = "sent" /\ msg.type = "REGISTER") => ctl' = ctl]_vars

C13_Witness ==
    /\ Handled("REGISTER", 1)
    /\ 1 \in DOMAIN game_states
    /\ game_number[1] = 1
    /\ 2 \in DOMAIN agent_teams
    /\ before.agent_teams[1] = agent_teams[2]
    /\ agent_teams[1] # before.agent_teams[1]
    /\ agents[1].ally_ids = <<2>>

\* the positions in calls of the calls of one operation
CallsOf(op) == {i \in 1..Len(calls) : calls[i].op = op}

\* C14: when the Action reply of STATE is sent, the calls made for the
\* message are, in this order: set_walls and set_food_positions with the
\* message's snapshot; observe_agent for every pair of agent_positions and
\* observe_fragile_agent for every pair of fragile_agents; choose_action
\* exactly once, with the game state as observed so far, executed_action,
\* reward, legal_actions and test_mode; predict_agent with the chosen action;
\* the send of Action(agent_id, chosen action). last_action still has its
\* old value at the send and receives the chosen action in the step after.
C14_StateStepsInOrder ==
    /\ [](\A a \in AgentIds :
            Handled("STATE", a) =>
                LET n == Len(calls)
                    observes == CallsOf("observe_agent")
                    fragiles == CallsOf("observe_fragile_agent")
                    chooses == CallsOf("choose_action")
                    predicts == CallsOf("predict_agent")
                IN  /\ n >= 4
                    /\ calls[1] = Call("set_walls", a, msg.wall_positions)
                    /\ calls[2] =
                          Call("set_food_positions", a, msg.food_positions)
                    /\ CallsOf("set_walls") = {1}
                    /\ CallsOf("set_food_positions") = {2}
                    /\ Cardinality(observes) =
                          Cardinality(DOMAIN msg.agent_positions)
                    /\ {<<calls[i].id, calls[i].arg>> : i \in observes} =
                          {<<id, msg.agent_positions[id]>> :
                              id \in DOMAIN msg.agent_positions}
                    /\ Cardinality(fragiles) =
                          Cardinality(DOMAIN msg.fragile_agents)
                    /\ {<<calls[i].id, calls[i].arg>> : i \in fragiles} =
                          {<<id, msg.fragile_agents[id]>> :
                              id \in DOMAIN msg.fragile_agents}
                    /\ Cardinality(chooses) = 1
                    /\ \A c \in chooses :
                          /\ \A i \in observes \cup fragiles : 2 < i /\ i < c
                          /\ \A i \in predicts : c < i /\ i < n
                          /\ calls[c].id = a
                          /\ calls[c].arg.executed_action = msg.executed_action
                          /\ calls[c].arg.reward = msg.reward
                          /\ calls[c].arg.legal_actions = msg.legal_actions
                          /\ calls[c].arg.test_mode = msg.test_mode
                          /\ calls[c].arg.state.walls = msg.wall_positions
                          /\ calls[c].arg.state.food_positions =
                                msg.food_positions
                          /\ \A id \in DOMAIN msg.agent_positions :
                                calls[c].arg.state.positions[id] =
                                    msg.agent_positions[id]
                          /\ \A id \in DOMAIN msg.fragile_agents :
                                calls[c].arg.state.fragile[id] =
                                    msg.fragile_agents[id]
                          /\ calls[c].arg.state.predicted =
                                before.game_states[a].predicted
                    /\ predicts # {}
                    /\ \A i \in predicts : calls[i].arg = reply.action
                    /\ CallsOf("send") = {n}
                    /\ calls[n] = Call("send", a, ActionMessage(a, reply.action))
                    /\ reply = ActionMessage(a, reply.action)
                    /\ last_action = before.last_action)
    /\ [][(pc = "sent" /\ msg.type = "STATE") =>
            /\ last_action' = reply.action
            /\ pc' = "receive"]_vars

C14_Witness ==
    /\ Handled("STATE", 1)
    /\ Len(calls) = 9
    /\ DOMAIN msg.agent_positions = {1, 2}
    /\ DOMAIN msg.fragile_agents = {1, 2}
    /\ reply.action = "North"
    /\ last_action = "Stop"
    /\ game_states[1].predicted = (1 :> "North")

\* C15: the step that follows the Ack of GAME_START(a) adds exactly 1 to the
\* episode counter of a and changes no other counter; when the Ack is sent
\* the counter is still the value the request found, and that value is the
\* iteration of the new game state; a GAME_START that raises leaves every
\* counter as it was; a counter grows in no other step.
C15_IncrementFollowsGameStartAck ==
    /\ [](\A a \in AgentIds :
            /\ Handled("GAME_START", a) =>
                  /\ game_number = before.game_number
                  /\ game_states[a].iteration = game_number[a]
            /\ (pc = "crashed" /\ msg.type = "GAME_START") =>
                  game_number = before.game_number)
    /\ [][\A a \in AgentIds :
            /\ Handled("GAME_START", a) =>
                  /\ pc' = "receive"
                  /\ game_number' =
                        [game_number EXCEPT ![a] = game_number[a] + 1]
            /\ (/\ a \in DOMAIN game_number
                /\ a \in DOMAIN game_number'
                /\ game_number'[a] > game_number[a]) =>
                  /\ Handled("GAME_START", a)
                  /\ game_number'[a] = game_number[a] + 1
            /\ (a \notin DOMAIN game_number /\ a \in DOMAIN game_number') =>
                  /\ msg'.type = "INIT"
                  /\ game_number'[a] = 0]_vars

C15_Witness ==
    /\ pc = "receive"
    /\ 1 \in DOMAIN game_states
    /\ game_number[1] = 2
    /\ game_states[1].iteration = 1
    /\ total_starts[1] = 2
    /\ received = 4

\* C16: an INIT for an agent_id without a registration raises with nothing
\* applied: no Ack is sent, no agent instance is created and the episode
\* counters are as the message found them (no entry created or reset),
\* whether the registry is empty or holds only other agents.
C16_InitWithoutRecordLeavesNoTrace ==
    (pc # "receive" /\ msg.type = "INIT"
        /\ msg.agent_id \notin DOMAIN before.agent_teams) =>
        /\ pc = "crashed"
        /\ sends = 0
        /\ reply = NoMsg
        /\ agents = before.agents
        /\ game_number = before.game_number

\* C17: a GAME_START for an agent_id without an agent instance, registered or
\* not, raises: no Ack is sent and no game state is created; so while the
\* controller is running every agent_id with a game state has an agent
\* instance and a STATE message never finds a game state without one.
C17_GameStartOnlyAfterInit ==
    /\ (pc # "receive" /\ msg.type = "GAME_START"
            /\ msg.agent_id \notin DOMAIN before.agents) =>
          /\ pc = "crashed"
          /\ sends = 0
          /\ reply = NoMsg
          /\ game_states = before.game_states
          /\ msg.agent_id \notin DOMAIN game_states
    /\ Handled("GAME_START", msg.agent_id) =>
          msg.agent_id \in DOMAIN before.agents
    /\ DOMAIN game_states \subseteq DOMAIN agents
    /\ (pc # "receive" /\ msg.type = "STATE"
            /\ msg.agent_id \in DOMAIN before.game_states) =>
          /\ msg.agent_id \in DOMAIN before.agents
          /\ pc = "sent"

C17_Witness ==
    /\ pc = "crashed"
    /\ msg.type = "GAME_START"
    /\ msg.agent_id = 1
    /\ 1 \in DOMAIN agent_teams
    /\ 1 \notin DOMAIN agents
    /\ 2 \in DOMAIN game_states

\* C18: while a message addressed to agent a is handled, up to its reply or
\* its KeyError and in the step that follows the reply, the team, class,
\* agent instance, game state and episode counter stored for every other
\* agent b stay as they were; and the INIT of a leaves every game state,
\* that of a included, in place.
C18_OtherAgentsUntouched ==
    /\ [](pc # "receive" =>
            \A b \in AgentIds \ {msg.agent_id} :
                EntryOf(Snapshot, b) = EntryOf(before, b))
    /\ [](\A a \in AgentIds :
            (pc # "receive" /\ msg.type = "INIT" /\ msg.agent_id = a) =>
                game_states = before.game_states)
    /\ [][pc = "sent" =>
            \A b \in AgentIds \ {msg.agent_id} :
                EntryOf(Snapshot, b)' = EntryOf(Snapshot, b)]_vars

C18_Witness ==
    /\ Handled("INIT", 1)
    /\ 1 \in DOMAIN game_states
    /\ 2 \in DOMAIN agents
    /\ game_number[2] = 0
    /\ before.game_number[1] = 1
    /\ game_number[1] = 0

\* every agent with a game state has an instance, every agent with an
\* instance has an episode counter, a team and a class
NestedTables ==
    /\ DOMAIN game_states \subseteq DOMAIN agents
    /\ DOMAIN agents \subseteq DOMAIN game_number
    /\ DOMAIN agents \subseteq DOMAIN agent_teams
    /\ DOMAIN agents \subseteq DOMAIN agent_classes

\* C19: in every reachable state the tables are nested, and between requests
\* the episode counter of every agent that has a game state is at least 1.
C19_CounterPositiveWithGameState ==
    /\ NestedTables
    /\ pc = "receive" =>
          \A a \in DOMAIN game_states : game_number[a] >= 1

\* C19 amended: in every reachable state the tables are nested, and between
\* requests the episode counter of an agent that has a game state is at
\* least 1 if a GAME_START for it has completed since its latest INIT; an
\* INIT leaves the game state in place and the counter at 0 until then.
C19_CounterPositiveSinceInit ==
    /\ NestedTables
    /\ pc = "receive" =>
          \A a \in DOMAIN game_states :
              /\ starts[a] >= 1 => game_number[a] >= 1
              /\ starts[a] = 0 => game_number[a] = 0

C19_Witness ==
    /\ pc = "receive"
    /\ 1 \in DOMAIN game_states
    /\ starts[1] = 1
    /\ total_starts[1] = 2
    /\ game_number[1] = 1
    /\ game_states[1].iteration = 0

\* C20: a REQUEST_POLICY(a) that is answered replies Policy(a, p) with p the
\* policy of the last POLICY(a, p) acknowledged since the latest INIT of a,
\* and the policy of a new instance when there was none; it changes nothing,
\* so a second REQUEST_POLICY(a) gets the same reply; POLICY and
\* REQUEST_POLICY for an agent_id without an instance raise and send nothing.
C20_PolicyRoundTrip ==
    /\ [](\A a \in AgentIds :
            /\ Handled("REQUEST_POLICY", a) =>
                  /\ reply = PolicyMessage(a, IF a \in DOMAIN policy_set
                                              THEN policy_set[a]
                                              ELSE NoPolicy)
                  /\ Snapshot = before
            /\ Handled("POLICY", a) =>
                  /\ policy_set[a] = msg.policy
                  /\ reply = AckMessage
                  /\ agents = [before.agents EXCEPT ![a].policy = msg.policy]
            /\ (pc # "receive" /\ msg.type \in {"POLICY", "REQUEST_POLICY"}
                    /\ msg.agent_id = a /\ a \notin DOMAIN before.agents) =>
                  /\ pc = "crashed"
                  /\ sends = 0
                  /\ reply = NoMsg
                  /\ Snapshot = before)
    /\ [][(pc = "sent" /\ msg.type \in {"POLICY", "REQUEST_POLICY"}) =>
            /\ ctl' = ctl
            /\ policy_set' = policy_set]_vars

C20_Witness ==
    /\ Handled("REQUEST_POLICY", 1)
    /\ reply = PolicyMessage(1, "p2")
    /\ policy_set = (1 :> "p2")
    /\ 1 \in DOMAIN game_states
    /\ game_states[1].predicted # EmptyDict

====
